---- MODULE Spec2Model ----
(***************************************************************************)
(* Block and free-list core of the heap allocator (block.c, freelist.c).   *)
(*                                                                         *)
(* Memory is a map from header addresses to Block headers.  The heap is    *)
(* the address range [HeapBase, brk); the free-list sentinel FreeList is a *)
(* static object outside the heap.  Every C function is an operator from a *)
(* heap state s = [mem, brk, cnt] (and its arguments) to a result record   *)
(* [s |-> state after the call, ret |-> returned value].                   *)
(***************************************************************************)
EXTENDS Integers, Sequences, FiniteSets, TLC

VARIABLES mem, brk, Counters, held, FIT

vars == <<mem, brk, Counters, held, FIT>>

(* ------------------------------ bounds -------------------------------- *)
\* the heap never grows beyond HeapBase + MaxHeap bytes
MaxHeap == 1710
\* the event counters (GROWS, SHRINKS, MERGES, SPLITS, REUSES) add up to at
\* most this
MaxEvents == 6
\* request sizes the callers draw from
Sizes == {300, 1000}

(* ------------------- configuration (malloc/block.h) ------------------- *)
ALIGNMENT == 8
TRIM_THRESHOLD == 1024
\* sizeof(Block): two size_t and two pointers before the flexible data[]
HeaderSize == 32
\* (size_t)-1, with size_t narrowed to 31 bits
SIZE_MAX == 2147483647

ALIGN(size) == ((size + (ALIGNMENT - 1)) \div ALIGNMENT) * ALIGNMENT

NULL == 0
\* &FreeList, a static object below the heap
FreeList == 8
\* the program break before the first sbrk call
HeapBase == 64

\* block->data: the payload starts right after the header
Data(block) == block + HeaderSize

Sentinel == [capacity |-> SIZE_MAX, size |-> SIZE_MAX, prev |-> FreeList, next |-> FreeList]

State == [mem |-> mem, brk |-> brk, cnt |-> Counters]

(* ------------------------------ block.c -------------------------------- *)

\* the header of a block given back to the system, or absorbed by a merge,
\* is no header any more
Unmap(m, block) == [a \in DOMAIN m \ {block} |-> m[a]]

\* block_allocate that grows the heap by the payload only
block_allocate_headerless(s, size, ok) ==
    LET allocated == ALIGN(size)
        block     == s.brk
    IN  IF ~ok
        THEN [s |-> s, ret |-> NULL]
        ELSE [s |-> [mem |-> [a \in DOMAIN s.mem \cup {block} |->
                                IF a = block
                                THEN [capacity |-> ALIGN(size), size |-> size,
                                      prev |-> block, next |-> block]
                                ELSE s.mem[a]],
                     brk |-> s.brk + allocated,
                     cnt |-> [s.cnt EXCEPT !.HEAP_SIZE = @ + allocated,
                                           !.BLOCKS = @ + 1,
                                           !.GROWS = @ + 1]],
              ret |-> block]

\* block_allocate that records the requested size as the capacity
block_allocate_exact(s, size, ok) ==
    LET allocated == HeaderSize + ALIGN(size)
        block     == s.brk
    IN  IF ~ok
        THEN [s |-> s, ret |-> NULL]
        ELSE [s |-> [mem |-> [a \in DOMAIN s.mem \cup {block} |->
                                IF a = block
                                THEN [capacity |-> size, size |-> size,
                                      prev |-> block, next |-> block]
                                ELSE s.mem[a]],
                     brk |-> s.brk + allocated,
                     cnt |-> [s.cnt EXCEPT !.HEAP_SIZE = @ + allocated,
                                           !.BLOCKS = @ + 1,
                                           !.GROWS = @ + 1]],
              ret |-> block]

block_allocate(s, size, ok) ==
    LET allocated == HeaderSize + ALIGN(size)
        block     == s.brk
    IN  IF ~ok
        THEN [s |-> s, ret |-> NULL]
        ELSE [s |-> [mem |-> [a \in DOMAIN s.mem \cup {block} |->
                                IF a = block
                                THEN [capacity |-> ALIGN(size), size |-> size,
                                      prev |-> block, next |-> block]
                                ELSE s.mem[a]],
                     brk |-> s.brk + allocated,
                     cnt |-> [s.cnt EXCEPT !.HEAP_SIZE = @ + allocated,
                                           !.BLOCKS = @ + 1,
                                           !.GROWS = @ + 1]],
              ret |-> block]

\* block_release that counts the release before the shrink call has succeeded
block_release_counted(s, block, ok) ==
    LET allocated == HeaderSize + s.mem[block].capacity
    IN  IF Data(block) + s.mem[block].capacity = s.brk
           /\ s.mem[block].capacity + HeaderSize > TRIM_THRESHOLD
        THEN IF ~ok
             THEN [s |-> [s EXCEPT !.cnt.BLOCKS = @ - 1, !.cnt.SHRINKS = @ + 1],
                   ret |-> FALSE]
             ELSE [s |-> [mem |-> Unmap(s.mem, block),
                          brk |-> s.brk - allocated,
                          cnt |-> [s.cnt EXCEPT !.BLOCKS = @ - 1,
                                                !.SHRINKS = @ + 1,
                                                !.HEAP_SIZE = @ - allocated]],
                   ret |-> TRUE]
        ELSE [s |-> s, ret |-> FALSE]

\* block_release without the trim threshold: any trailing block is released
block_release_any(s, block, ok) ==
    LET allocated == HeaderSize + s.mem[block].capacity
    IN  IF Data(block) + s.mem[block].capacity = s.brk
        THEN IF ~ok
             THEN [s |-> s, ret |-> FALSE]
             ELSE [s |-> [mem |-> Unmap(s.mem, block),
                          brk |-> s.brk - allocated,
                          cnt |-> [s.cnt EXCEPT !.BLOCKS = @ - 1,
                                                !.SHRINKS = @ + 1,
                                                !.HEAP_SIZE = @ - allocated]],
                   ret |-> TRUE]
        ELSE [s |-> s, ret |-> FALSE]

\* block_release that compares the capacity alone with the trim threshold
block_release_capacity(s, block, ok) ==
    LET allocated == HeaderSize + s.mem[block].capacity
    IN  IF Data(block) + s.mem[block].capacity = s.brk
           /\ s.mem[block].capacity > TRIM_THRESHOLD
        THEN IF ~ok
             THEN [s |-> s, ret |-> FALSE]
             ELSE [s |-> [mem |-> Unmap(s.mem, block),
                          brk |-> s.brk - allocated,
                          cnt |-> [s.cnt EXCEPT !.BLOCKS = @ - 1,
                                                !.SHRINKS = @ + 1,
                                                !.HEAP_SIZE = @ - allocated]],
                   ret |-> TRUE]
        ELSE [s |-> s, ret |-> FALSE]

block_release(s, block, ok) ==
    LET allocated == HeaderSize + s.mem[block].capacity
    IN  IF Data(block) + s.mem[block].capacity = s.brk
           /\ s.mem[block].capacity + HeaderSize > TRIM_THRESHOLD
        THEN IF ~ok
             THEN [s |-> s, ret |-> FALSE]
             ELSE [s |-> [mem |-> Unmap(s.mem, block),
                          brk |-> s.brk - allocated,
                          cnt |-> [s.cnt EXCEPT !.BLOCKS = @ - 1,
                                                !.SHRINKS = @ + 1,
                                                !.HEAP_SIZE = @ - allocated]],
                   ret |-> TRUE]
        ELSE [s |-> s, ret |-> FALSE]

\* block_detach that forgets to point the next block back at the previous one
block_detach_oneway(s, block) ==
    IF block # NULL
    THEN LET before == s.mem[block].prev
             m1 == [s.mem EXCEPT ![before].next = s.mem[block].next]
             m3 == [m1 EXCEPT ![block].next = block]
             m4 == [m3 EXCEPT ![block].prev = block]
         IN  [s |-> [s EXCEPT !.mem = m4], ret |-> block]
    ELSE [s |-> s, ret |-> block]

\* block_detach that splices the neighbours but leaves the block's own links
block_detach_linked(s, block) ==
    IF block # NULL
    THEN LET before == s.mem[block].prev
             after  == s.mem[block].next
             m1 == [s.mem EXCEPT ![before].next = after]
             m2 == [m1 EXCEPT ![after].prev = before]
         IN  [s |-> [s EXCEPT !.mem = m2], ret |-> block]
    ELSE [s |-> s, ret |-> block]

block_detach(s, block) ==
    IF block # NULL
    THEN LET before == s.mem[block].prev
             after  == s.mem[block].next
             m1 == [s.mem EXCEPT ![before].next = after]
             m2 == [m1 EXCEPT ![after].prev = before]
             m3 == [m2 EXCEPT ![block].next = block]
             m4 == [m3 EXCEPT ![block].prev = block]
         IN  [s |-> [s EXCEPT !.mem = m4], ret |-> block]
    ELSE [s |-> s, ret |-> block]

\* block_merge that adds the payload of src but not its header
block_merge_payload(s, dst, src) ==
    IF Data(dst) + s.mem[dst].capacity = src
    THEN [s |-> [s EXCEPT !.mem[dst].capacity = @ + s.mem[src].capacity,
                          !.cnt.MERGES = @ + 1,
                          !.cnt.BLOCKS = @ - 1],
          ret |-> TRUE]
    ELSE [s |-> s, ret |-> FALSE]

block_merge(s, dst, src) ==
    IF Data(dst) + s.mem[dst].capacity = src
    THEN [s |-> [s EXCEPT !.mem[dst].capacity = @ + ALIGN(s.mem[src].capacity + HeaderSize),
                          !.cnt.MERGES = @ + 1,
                          !.cnt.BLOCKS = @ - 1],
          ret |-> TRUE]
    ELSE [s |-> s, ret |-> FALSE]

\* block_split whose remainder points back at the block as its next
block_split_cycle(s, block, size) ==
    IF ALIGN(size) + HeaderSize < s.mem[block].capacity
    THEN LET new_block == Data(block) + ALIGN(size)
             rest == s.mem[block].capacity - ALIGN(size) - HeaderSize
             m0 == [a \in DOMAIN s.mem \cup {new_block} |->
                      IF a = new_block
                      THEN [capacity |-> rest, size |-> rest,
                            prev |-> block, next |-> block]
                      ELSE s.mem[a]]
             m1 == [m0 EXCEPT ![m0[block].next].prev = new_block]
             m2 == [m1 EXCEPT ![block].capacity = ALIGN(size)]
             m3 == [m2 EXCEPT ![block].size = size]
             m4 == [m3 EXCEPT ![block].next = new_block]
         IN  [s |-> [mem |-> m4, brk |-> s.brk,
                     cnt |-> [s.cnt EXCEPT !.SPLITS = @ + 1, !.BLOCKS = @ + 1]],
              ret |-> block]
    ELSE [s |-> s, ret |-> block]

\* block_split that leaves the following node's prev on the block
block_split_noback(s, block, size) ==
    IF ALIGN(size) + HeaderSize < s.mem[block].capacity
    THEN LET new_block == Data(block) + ALIGN(size)
             rest == s.mem[block].capacity - ALIGN(size) - HeaderSize
             m0 == [a \in DOMAIN s.mem \cup {new_block} |->
                      IF a = new_block
                      THEN [capacity |-> rest, size |-> rest,
                            prev |-> block, next |-> s.mem[block].next]
                      ELSE s.mem[a]]
             m1 == m0
             m2 == [m1 EXCEPT ![block].capacity = ALIGN(size)]
             m3 == [m2 EXCEPT ![block].size = size]
             m4 == [m3 EXCEPT ![block].next = new_block]
         IN  [s |-> [mem |-> m4, brk |-> s.brk,
                     cnt |-> [s.cnt EXCEPT !.SPLITS = @ + 1, !.BLOCKS = @ + 1]],
              ret |-> block]
    ELSE [s |-> s, ret |-> block]

\* block_split that does not count the block it makes
block_split_uncounted(s, block, size) ==
    IF ALIGN(size) + HeaderSize < s.mem[block].capacity
    THEN LET new_block == Data(block) + ALIGN(size)
             rest == s.mem[block].capacity - ALIGN(size) - HeaderSize
             m0 == [a \in DOMAIN s.mem \cup {new_block} |->
                      IF a = new_block
                      THEN [capacity |-> rest, size |-> rest,
                            prev |-> block, next |-> s.mem[block].next]
                      ELSE s.mem[a]]
             m1 == [m0 EXCEPT ![m0[block].next].prev = new_block]
             m2 == [m1 EXCEPT ![block].capacity = ALIGN(size)]
             m3 == [m2 EXCEPT ![block].size = size]
             m4 == [m3 EXCEPT ![block].next = new_block]
         IN  [s |-> [mem |-> m4, brk |-> s.brk,
                     cnt |-> [s.cnt EXCEPT !.SPLITS = @ + 1]],
              ret |-> block]
    ELSE [s |-> s, ret |-> block]

\* block_split that sizes the remainder from the unaligned request
block_split_unaligned(s, block, size) ==
    IF ALIGN(size) + HeaderSize < s.mem[block].capacity
    THEN LET new_block == Data(block) + ALIGN(size)
             rest == s.mem[block].capacity - size - HeaderSize
             m0 == [a \in DOMAIN s.mem \cup {new_block} |->
                      IF a = new_block
                      THEN [capacity |-> rest, size |-> rest,
                            prev |-> block, next |-> s.mem[block].next]
                      ELSE s.mem[a]]
             m1 == [m0 EXCEPT ![m0[block].next].prev = new_block]
             m2 == [m1 EXCEPT ![block].capacity = ALIGN(size)]
             m3 == [m2 EXCEPT ![block].size = size]
             m4 == [m3 EXCEPT ![block].next = new_block]
         IN  [s |-> [mem |-> m4, brk |-> s.brk,
                     cnt |-> [s.cnt EXCEPT !.SPLITS = @ + 1, !.BLOCKS = @ + 1]],
              ret |-> block]
    ELSE [s |-> s, ret |-> block]

\* block_split that forgets the remainder's header when sizing it
block_split_headerless(s, block, size) ==
    IF ALIGN(size) + HeaderSize < s.mem[block].capacity
    THEN LET new_block == Data(block) + ALIGN(size)
             rest == s.mem[block].capacity - ALIGN(size)
             m0 == [a \in DOMAIN s.mem \cup {new_block} |->
                      IF a = new_block
                      THEN [capacity |-> rest, size |-> rest,
                            prev |-> block, next |-> s.mem[block].next]
                      ELSE s.mem[a]]
             m1 == [m0 EXCEPT ![m0[block].next].prev = new_block]
             m2 == [m1 EXCEPT ![block].capacity = ALIGN(size)]
             m3 == [m2 EXCEPT ![block].size = size]
             m4 == [m3 EXCEPT ![block].next = new_block]
         IN  [s |-> [mem |-> m4, brk |-> s.brk,
                     cnt |-> [s.cnt EXCEPT !.SPLITS = @ + 1, !.BLOCKS = @ + 1]],
              ret |-> block]
    ELSE [s |-> s, ret |-> block]

block_split(s, block, size) ==
    IF ALIGN(size) + HeaderSize < s.mem[block].capacity
    THEN LET new_block == Data(block) + ALIGN(size)
             rest == s.mem[block].capacity - ALIGN(size) - HeaderSize
             m0 == [a \in DOMAIN s.mem \cup {new_block} |->
                      IF a = new_block
                      THEN [capacity |-> rest, size |-> rest,
                            prev |-> block, next |-> s.mem[block].next]
                      ELSE s.mem[a]]
             m1 == [m0 EXCEPT ![m0[block].next].prev = new_block]
             m2 == [m1 EXCEPT ![block].capacity = ALIGN(size)]
             m3 == [m2 EXCEPT ![block].size = size]
             m4 == [m3 EXCEPT ![block].next = new_block]
         IN  [s |-> [mem |-> m4, brk |-> s.brk,
                     cnt |-> [s.cnt EXCEPT !.SPLITS = @ + 1, !.BLOCKS = @ + 1]],
              ret |-> block]
    ELSE [s |-> s, ret |-> block]

(* ----------------------------- freelist.c ------------------------------ *)

\* first fit that wants strictly more capacity than requested
RECURSIVE ff_loop_strict(_, _, _)
ff_loop_strict(s, curr, size) ==
    IF curr = FreeList THEN NULL
    ELSE IF s.mem[curr].capacity > size THEN curr
    ELSE ff_loop_strict(s, s.mem[curr].next, size)

RECURSIVE ff_loop(_, _, _)
ff_loop(s, curr, size) ==
    IF curr = FreeList THEN NULL
    ELSE IF s.mem[curr].capacity >= size THEN curr
    ELSE ff_loop(s, s.mem[curr].next, size)

SetSize(s, block, size) ==
    IF block # NULL THEN [s EXCEPT !.mem[block].size = size] ELSE s

\* first fit whose scan starts at the sentinel instead of the sentinel's next
free_list_search_ff_head(s, size) ==
    LET found == IF s.mem[FreeList].capacity >= size THEN FreeList
                 ELSE ff_loop(s, s.mem[FreeList].next, size)
    IN  [s |-> SetSize(s, found, size), ret |-> found]

free_list_search_ff(s, size) ==
    LET found == ff_loop(s, s.mem[FreeList].next, size)
    IN  [s |-> SetSize(s, found, size), ret |-> found]

\* best fit that lets a later block of the same capacity replace the choice
RECURSIVE bf_loop_last(_, _, _, _)
bf_loop_last(s, curr, size, smallest) ==
    IF curr = FreeList THEN smallest
    ELSE IF s.mem[curr].capacity >= size /\ smallest = NULL
         THEN bf_loop_last(s, s.mem[curr].next, size, curr)
    ELSE IF s.mem[curr].capacity >= size
            /\ s.mem[curr].capacity <= s.mem[smallest].capacity
         THEN bf_loop_last(s, s.mem[curr].next, size, curr)
    ELSE bf_loop_last(s, s.mem[curr].next, size, smallest)

RECURSIVE bf_loop(_, _, _, _)
bf_loop(s, curr, size, smallest) ==
    IF curr = FreeList THEN smallest
    ELSE IF s.mem[curr].capacity >= size /\ smallest = NULL
         THEN bf_loop(s, s.mem[curr].next, size, curr)
    ELSE IF s.mem[curr].capacity >= size
            /\ s.mem[curr].capacity < s.mem[smallest].capacity
         THEN bf_loop(s, s.mem[curr].next, size, curr)
    ELSE bf_loop(s, s.mem[curr].next, size, smallest)

free_list_search_bf(s, size) ==
    LET smallest == bf_loop(s, s.mem[FreeList].next, size, NULL)
    IN  [s |-> SetSize(s, smallest, size), ret |-> smallest]

\* worst fit that lets a later block of the same capacity replace the choice
RECURSIVE wf_loop_last(_, _, _, _)
wf_loop_last(s, curr, size, largest) ==
    IF curr = FreeList THEN largest
    ELSE IF s.mem[curr].capacity >= size /\ largest = NULL
         THEN wf_loop_last(s, s.mem[curr].next, size, curr)
    ELSE IF s.mem[curr].capacity >= size
            /\ s.mem[curr].capacity >= s.mem[largest].capacity
         THEN wf_loop_last(s, s.mem[curr].next, size, curr)
    ELSE wf_loop_last(s, s.mem[curr].next, size, largest)

RECURSIVE wf_loop(_, _, _, _)
wf_loop(s, curr, size, largest) ==
    IF curr = FreeList THEN largest
    ELSE IF s.mem[curr].capacity >= size /\ largest = NULL
         THEN wf_loop(s, s.mem[curr].next, size, curr)
    ELSE IF s.mem[curr].capacity >= size
            /\ s.mem[curr].capacity > s.mem[largest].capacity
         THEN wf_loop(s, s.mem[curr].next, size, curr)
    ELSE wf_loop(s, s.mem[curr].next, size, largest)

free_list_search_wf(s, size) ==
    LET largest == wf_loop(s, s.mem[FreeList].next, size, NULL)
    IN  [s |-> SetSize(s, largest, size), ret |-> largest]

\* fit is the compile-time FIT: 0 first fit, 1 worst fit, 2 best fit; with
\* any other setting no strategy is compiled in and block stays NULL
free_list_search(s, size, fit) ==
    LET r == IF fit = 0 THEN free_list_search_ff(s, size)
             ELSE IF fit = 1 THEN free_list_search_wf(s, size)
             ELSE IF fit = 2 THEN free_list_search_bf(s, size)
             ELSE [s |-> s, ret |-> NULL]
    IN  IF r.ret # NULL
        THEN [s |-> [r.s EXCEPT !.cnt.REUSES = @ + 1], ret |-> r.ret]
        ELSE r

\* insertion that puts an unmerged block at the head of the list
RECURSIVE insert_loop_head(_, _, _)
insert_loop_head(s, block, curr) ==
    IF curr = FreeList
    THEN LET head == s.mem[FreeList].next
             m1 == [s.mem EXCEPT ![head].prev = block]
             m2 == [m1 EXCEPT ![FreeList].next = block]
             m3 == [m2 EXCEPT ![block].prev = FreeList]
             m4 == [m3 EXCEPT ![block].next = head]
         IN  [s |-> [s EXCEPT !.mem = m4], ret |-> NULL]
    ELSE LET a == block_merge(s, block, curr)
         IN  IF a.ret
             THEN LET m0 == a.s.mem
                      m1 == [m0 EXCEPT ![block].prev = m0[curr].prev]
                      m2 == [m1 EXCEPT ![block].next = m1[curr].next]
                      m3 == [m2 EXCEPT ![m2[curr].prev].next = block]
                      m4 == [m3 EXCEPT ![m3[curr].next].prev = block]
                  IN  [s |-> [a.s EXCEPT !.mem = m4], ret |-> curr]
             ELSE LET b == block_merge(s, curr, block)
                  IN  IF b.ret
                      THEN [s |-> b.s, ret |-> block]
                      ELSE insert_loop_head(s, block, s.mem[curr].next)

\* insertion whose append forgets to make the block the sentinel's prev
RECURSIVE insert_loop_lost(_, _, _)
insert_loop_lost(s, block, curr) ==
    IF curr = FreeList
    THEN LET tail == s.mem[FreeList].prev
             m1 == [s.mem EXCEPT ![tail].next = block]
             m3 == [m1 EXCEPT ![block].next = FreeList]
             m4 == [m3 EXCEPT ![block].prev = tail]
         IN  [s |-> [s EXCEPT !.mem = m4], ret |-> NULL]
    ELSE LET a == block_merge(s, block, curr)
         IN  IF a.ret
             THEN LET m0 == a.s.mem
                      m1 == [m0 EXCEPT ![block].prev = m0[curr].prev]
                      m2 == [m1 EXCEPT ![block].next = m1[curr].next]
                      m3 == [m2 EXCEPT ![m2[curr].prev].next = block]
                      m4 == [m3 EXCEPT ![m3[curr].next].prev = block]
                  IN  [s |-> [a.s EXCEPT !.mem = m4], ret |-> curr]
             ELSE LET b == block_merge(s, curr, block)
                  IN  IF b.ret
                      THEN [s |-> b.s, ret |-> block]
                      ELSE insert_loop_lost(s, block, s.mem[curr].next)

\* ret is the block whose header a merge turned into payload (NULL if none)
RECURSIVE insert_loop(_, _, _)
insert_loop(s, block, curr) ==
    IF curr = FreeList
    THEN LET tail == s.mem[FreeList].prev
             m1 == [s.mem EXCEPT ![tail].next = block]
             m2 == [m1 EXCEPT ![FreeList].prev = block]
             m3 == [m2 EXCEPT ![block].next = FreeList]
             m4 == [m3 EXCEPT ![block].prev = tail]
         IN  [s |-> [s EXCEPT !.mem = m4], ret |-> NULL]
    ELSE LET a == block_merge(s, block, curr)
         IN  IF a.ret
             THEN LET m0 == a.s.mem
                      m1 == [m0 EXCEPT ![block].prev = m0[curr].prev]
                      m2 == [m1 EXCEPT ![block].next = m1[curr].next]
                      m3 == [m2 EXCEPT ![m2[curr].prev].next = block]
                      m4 == [m3 EXCEPT ![m3[curr].next].prev = block]
                  IN  [s |-> [a.s EXCEPT !.mem = m4], ret |-> curr]
             ELSE LET b == block_merge(s, curr, block)
                  IN  IF b.ret
                      THEN [s |-> b.s, ret |-> block]
                      ELSE insert_loop(s, block, s.mem[curr].next)

\* insertion that coalesces on: after a merge the survivor is taken out and
\* inserted once more
free_list_insert_chained(s, block) ==
    LET r == insert_loop(s, block, s.mem[FreeList].next)
    IN  IF r.ret = NULL THEN r
        ELSE LET s1 == [r.s EXCEPT !.mem = Unmap(r.s.mem, r.ret)]
                 survivor == IF r.ret = block
                             THEN CHOOSE c \in DOMAIN s.mem \ {FreeList} :
                                      Data(c) + s.mem[c].capacity = block
                             ELSE block
                 d  == block_detach(s1, survivor)
                 r2 == insert_loop(d.s, survivor, d.s.mem[FreeList].next)
             IN  IF r2.ret = NULL THEN [s |-> r2.s, ret |-> r.ret]
                 ELSE [s |-> [r2.s EXCEPT !.mem = Unmap(r2.s.mem, r2.ret)], ret |-> r.ret]

free_list_insert(s, block) ==
    LET r == insert_loop(s, block, s.mem[FreeList].next)
    IN  IF r.ret = NULL THEN r
        ELSE [s |-> [r.s EXCEPT !.mem = Unmap(r.s.mem, r.ret)], ret |-> r.ret]

RECURSIVE length_loop(_, _, _)
length_loop(s, curr, counter) ==
    IF curr = FreeList THEN counter
    ELSE length_loop(s, s.mem[curr].next, counter + 1)

free_list_length(s) == length_loop(s, s.mem[FreeList].next, 0)

(* ------------- the allocation entry points (malloc, free) -------------- *)

\* search; on a hit detach the block, split it if oversized and put the
\* remainder back into the free list; on a miss grow the heap
malloc(s, size, fit, ok) ==
    LET f == free_list_search(s, size, fit)
    IN  IF f.ret # NULL
        THEN LET d == block_detach(f.s, f.ret)
                 p == block_split(d.s, f.ret, size)
             IN  IF p.s.cnt.SPLITS # d.s.cnt.SPLITS
                 THEN [s |-> free_list_insert(p.s, p.s.mem[f.ret].next).s, ret |-> f.ret]
                 ELSE [s |-> p.s, ret |-> f.ret]
        ELSE block_allocate(s, size, ok)

\* block_release if it succeeds, else free_list_insert
free(s, block, ok) ==
    LET r == block_release(s, block, ok)
    IN  IF r.ret THEN r.s ELSE free_list_insert(r.s, block).s

(* ------------------------------- state --------------------------------- *)

\* the members of the free list in list order, sentinel excluded; the walk
\* gives up after as many nodes as there are headers (a ring that misses
\* the sentinel shows as a repeated member)
RECURSIVE Walk(_, _, _)
Walk(m, curr, fuel) ==
    IF curr = FreeList \/ fuel = 0 THEN <<>>
    ELSE <<curr>> \o Walk(m, m[curr].next, fuel - 1)

FreeSeq(m) == Walk(m, m[FreeList].next, Cardinality(DOMAIN m))

Range(q) == {q[i] : i \in 1..Len(q)}

FreeSet(m) == Range(FreeSeq(m))

SelfLinked(m, b) == m[b].prev = b /\ m[b].next = b

\* the next chain from the sentinel comes back to the sentinel before it has
\* taken as many steps as there are headers, and passes no node twice
Closed(m) ==
    LET q == FreeSeq(m)
    IN  /\ Len(q) < Cardinality(DOMAIN m)
        /\ \A i, j \in 1..Len(q) : q[i] = q[j] => i = j
        /\ Range(q) \subseteq DOMAIN m \ {FreeList}

\* the heap and the number of counted events stay within the bounds
InBounds(s) ==
    /\ s.brk - HeapBase <= MaxHeap
    /\ s.cnt.GROWS + s.cnt.SHRINKS + s.cnt.MERGES + s.cnt.SPLITS + s.cnt.REUSES
         <= MaxEvents

Commit(s) ==
    /\ InBounds(s)
    /\ mem' = s.mem
    /\ brk' = s.brk
    /\ Counters' = s.cnt

Init ==
    /\ mem = [a \in {FreeList} |-> Sentinel]
    /\ brk = HeapBase
    /\ Counters = [HEAP_SIZE |-> 0, BLOCKS |-> 0, GROWS |-> 0, SHRINKS |-> 0,
                   MERGES |-> 0, SPLITS |-> 0, REUSES |-> 0]
    /\ held = {}
    /\ FIT \in {0, 1, 2}

(* ------------------------------ actions -------------------------------- *)

\* a caller grows the heap by one block and keeps it
BlockAllocate(size, ok) ==
    LET r == block_allocate(State, size, ok)
    IN  /\ Commit(r.s)
        /\ held' = IF r.ret = NULL THEN held ELSE held \cup {r.ret}
        /\ UNCHANGED FIT

\* a caller tries to give a block it holds back to the system
BlockRelease(block, ok) ==
    LET r == block_release(State, block, ok)
    IN  /\ block \in held
        /\ Commit(r.s)
        /\ held' = IF r.ret THEN held \ {block} ELSE held
        /\ UNCHANGED FIT

\* a caller takes a member out of the free list (or detaches a detached block)
BlockDetach(block) ==
    LET r == block_detach(State, block)
    IN  /\ block \in FreeSet(mem) \/ (block \in held /\ SelfLinked(mem, block))
        /\ Commit(r.s)
        /\ held' = held \cup {block}
        /\ UNCHANGED FIT

\* a member of the free list is split in place
BlockSplit(block, size) ==
    LET r == block_split(State, block, size)
    IN  /\ block \in FreeSet(mem)
        /\ Commit(r.s)
        /\ UNCHANGED <<held, FIT>>

FreeListSearch(size) ==
    LET r == free_list_search(State, size, FIT)
    IN  /\ Commit(r.s)
        /\ UNCHANGED <<held, FIT>>

\* a caller hands a block it holds to the free list
FreeListInsert(block) ==
    LET r == free_list_insert(State, block)
    IN  /\ block \in held
        /\ Commit(r.s)
        /\ held' = held \ {block}
        /\ UNCHANGED FIT

Malloc(size, ok) ==
    LET r == malloc(State, size, FIT, ok)
    IN  /\ Commit(r.s)
        /\ held' = IF r.ret = NULL THEN held ELSE held \cup {r.ret}
        /\ UNCHANGED FIT

Free(block, ok) ==
    /\ block \in held
    /\ Commit(free(State, block, ok))
    /\ held' = held \ {block}
    /\ UNCHANGED FIT

Next ==
    \/ \E size \in Sizes, ok \in BOOLEAN : BlockAllocate(size, ok)
    \/ \E block \in held, ok \in BOOLEAN : BlockRelease(block, ok)
    \/ \E block \in DOMAIN mem \ {FreeList} : BlockDetach(block)
    \/ \E block \in DOMAIN mem \ {FreeList}, size \in Sizes : BlockSplit(block, size)
    \/ \E size \in Sizes : FreeListSearch(size)
    \/ \E block \in held : FreeListInsert(block)
    \/ \E size \in Sizes, ok \in BOOLEAN : Malloc(size, ok)
    \/ \E block \in held, ok \in BOOLEAN : Free(block, ok)

Spec == Init /\ [][Next]_vars

\* the entry points alone
NextMalloc ==
    \/ \E size \in Sizes, ok \in BOOLEAN : Malloc(size, ok)
    \/ \E block \in held, ok \in BOOLEAN : Free(block, ok)

SpecMalloc == Init /\ [][NextMalloc]_vars



\* a caller detaches once more a block it holds whose links are not its own
\* address.  The links may lead to a header that a release or a merge has
\* ended: the two writes then land in memory that is no header (or the
\* program faults and takes no step).
DetachHeld(block) ==
    LET pad == [a \in DOMAIN mem \cup {mem[block].prev, mem[block].next} |->
                  IF a \in DOMAIN mem THEN mem[a]
                  ELSE [capacity |-> 0, size |-> 0, prev |-> a, next |-> a]]
        r   == block_detach([State EXCEPT !.mem = pad], block)
    IN  /\ block \in held
        /\ ~SelfLinked(mem, block)
        /\ mem' = [a \in DOMAIN mem |-> r.s.mem[a]]
        /\ UNCHANGED <<brk, Counters, held, FIT>>

\* callers that may detach any block they hold; a behaviour is followed up
\* to the first state whose chain does not come back to the sentinel
NextUnchecked ==
    \/ \E size \in Sizes, ok \in BOOLEAN : Closed(mem) /\ BlockAllocate(size, ok)
    \/ \E block \in held, ok \in BOOLEAN : Closed(mem) /\ BlockRelease(block, ok)
    \/ \E block \in DOMAIN mem \ {FreeList} : Closed(mem) /\ BlockDetach(block)
    \/ \E block \in held : Closed(mem) /\ DetachHeld(block)
    \/ \E block \in DOMAIN mem \ {FreeList}, size \in Sizes :
           Closed(mem) /\ BlockSplit(block, size)
    \/ \E size \in Sizes : Closed(mem) /\ FreeListSearch(size)
    \/ \E block \in held : Closed(mem) /\ FreeListInsert(block)
    \/ \E size \in Sizes, ok \in BOOLEAN : Closed(mem) /\ Malloc(size, ok)
    \/ \E block \in held, ok \in BOOLEAN : Closed(mem) /\ Free(block, ok)

SpecUnchecked == Init /\ [][NextUnchecked]_vars
(* ------------------------------ notions -------------------------------- *)

\* the blocks that exist: headers inside the heap
Live(m) == DOMAIN m \ {FreeList}

\* block a is immediately followed by block b
Adjacent(m, a, b) == Data(a) + m[a].capacity = b

\* the end of the payload is the heap boundary
Trailing(s, b) == Data(b) + s.mem[b].capacity = s.brk

Occurrences(q, x) == Cardinality({i \in 1..Len(q) : q[i] = x})

\* sizes the claims about single calls are tried with
Requests == {1, 300, 304, 305, 640, 992, 993, 1000}

(* ------------------------------- claims -------------------------------- *)

\* allocate(S), release of that block, allocate(S) again: the second call
\* returns the same block through a free-list hit and records no growth
RoundTrip(s, fit, S) ==
    LET a1  == malloc(s, S, fit, TRUE)
        s2  == free(a1.s, a1.ret, TRUE)
        hit == free_list_search(s2, S, fit).ret
        a2  == malloc(s2, S, fit, TRUE)
    IN  /\ a2.ret = a1.ret
        /\ hit # NULL
        /\ a2.s.cnt.GROWS = s2.cnt.GROWS

C2_FreeBlocksSized ==
    \A b \in FreeSet(mem) :
        /\ mem[b].size <= mem[b].capacity
        /\ mem[b].capacity % ALIGNMENT = 0

\* a free block that went through a merge or a search: size below capacity
C2_Witness ==
    /\ Counters.MERGES > 0
    /\ Counters.SPLITS > 0
    /\ \E b \in FreeSet(mem) : mem[b].size < mem[b].capacity

\* C3 as stated: the capacity of every live block equals align(size).
C3_CapacityIsAlignedSize ==
    \A b \in Live(mem) : mem[b].capacity = ALIGN(mem[b].size)

\* C3 amended: the capacity of every live block is a multiple of the
\* alignment and at least align(size).
C3_CapacityCoversAlignedSize ==
    \A b \in Live(mem) :
        /\ mem[b].capacity % ALIGNMENT = 0
        /\ mem[b].capacity >= ALIGN(mem[b].size)

\* a block whose capacity is more than its size rounded up
C3_Witness ==
    \E b \in Live(mem) : mem[b].capacity > ALIGN(mem[b].size)

\* every live block that no caller holds is in the free list exactly once
FreeOnce ==
    \A b \in Live(mem) \ held : Occurrences(FreeSeq(mem), b) = 1

\* C4 as stated: every block held by a caller is self-linked and not
\* reachable from the sentinel, and every other live block is reachable from
\* the sentinel exactly once.
C4_HeldDetached ==
    /\ \A b \in held : SelfLinked(mem, b) /\ b \notin FreeSet(mem)
    /\ FreeOnce

\* C4 amended: every block held by a caller is not reachable from the
\* sentinel and has prev == next, which is the block itself or, when the
\* allocation split it, the remainder carved right behind it; every other
\* live block is reachable from the sentinel exactly once.
C4_HeldOutOfList ==
    /\ \A b \in held :
        /\ b \notin FreeSet(mem)
        /\ mem[b].prev = mem[b].next
        /\ mem[b].next \in {b, Data(b) + mem[b].capacity}
    /\ FreeOnce

\* a caller holds a block that a hit split, next to free blocks
C4_Witness ==
    /\ \E b \in held : ~SelfLinked(mem, b)
    /\ \E b \in held : SelfLinked(mem, b)
    /\ FreeSeq(mem) # <<>>

\* C5: block_merge(dst, src) returns true iff dst.data + dst.capacity is the
\* address of src; on true dst.capacity grows by align(src.capacity) +
\* header-size, the merged block covers the bytes of the two blocks, and
\* nothing else of any block changes; on false no block changes.
C5_Merge ==
    \A dst \in Live(mem), src \in Live(mem) :
        LET r == block_merge(State, dst, src)
            d == mem[dst]
        IN  /\ r.ret <=> (Data(dst) + d.capacity = src)
            /\ r.ret =>
                /\ r.s.mem[dst].capacity
                     = d.capacity + ALIGN(mem[src].capacity) + HeaderSize
                /\ HeaderSize + r.s.mem[dst].capacity
                     = (HeaderSize + d.capacity) + (HeaderSize + mem[src].capacity)
                /\ r.s.mem = [mem EXCEPT ![dst].capacity = r.s.mem[dst].capacity]
            /\ ~r.ret => r.s.mem = mem

\* a merge has happened and two live blocks are physically adjacent
C5_Witness ==
    /\ Counters.MERGES > 0
    /\ \E dst \in Live(mem), src \in Live(mem) : Adjacent(mem, dst, src)
    /\ \E dst \in Live(mem), src \in Live(mem) : dst # src /\ ~Adjacent(mem, dst, src)

\* the blocks block_split may be called on: list members and detached blocks
SplitTargets == FreeSet(mem) \cup {b \in held : SelfLinked(mem, b)}

\* q with x put right behind the member y
InsertAfter(q, y, x) ==
    LET i == CHOOSE k \in 1..Len(q) : q[k] = y
    IN  SubSeq(q, 1, i) \o <<x>> \o SubSeq(q, i + 1, Len(q))

\* C6: if align(s) + header-size < C, block_split(block, s) leaves the block
\* with capacity align(s) and size s and creates a remainder at block.data +
\* align(s) with capacity and size C - align(s) - header-size, linked right
\* behind the block in its list; otherwise nothing changes.  The original
\* block is returned in both cases.
C6_Split ==
    \A b \in SplitTargets, sz \in Requests :
        LET r   == block_split(State, b, sz)
            C   == mem[b].capacity
            rem == Data(b) + ALIGN(sz)
            nxt == mem[b].next
            m   == r.s.mem
        IN  /\ r.ret = b
            /\ IF ALIGN(sz) + HeaderSize < C
               THEN /\ m[b].capacity = ALIGN(sz)
                    /\ m[b].size = sz
                    /\ rem \in DOMAIN m \ DOMAIN mem
                    /\ m[rem].capacity = C - ALIGN(sz) - HeaderSize
                    /\ m[rem].size = m[rem].capacity
                    /\ ALIGN(sz) + HeaderSize + m[rem].capacity = C
                    /\ m[b].next = rem
                    /\ m[rem].prev = b
                    /\ m[rem].next = nxt
                    /\ m[nxt].prev = rem
                    /\ b \in FreeSet(mem) => FreeSeq(m) = InsertAfter(FreeSeq(mem), b, rem)
                    /\ \A a \in DOMAIN mem \ {b, nxt} : m[a] = mem[a]
                    /\ r.s.brk = brk
               ELSE r.s = State

\* a split has happened, and the free list holds a block some request would
\* split and a block it would leave whole
C6_Witness ==
    /\ Counters.SPLITS > 0
    /\ \E b \in FreeSet(mem) : ALIGN(300) + HeaderSize < mem[b].capacity
    /\ \E b \in SplitTargets : ~(ALIGN(300) + HeaderSize < mem[b].capacity)

RECURSIVE InsertAll(_, _)
InsertAll(s, q) ==
    IF q = <<>> THEN s ELSE InsertAll(free_list_insert(s, Head(q)).s, Tail(q))

\* the sequences of distinct elements of S
DistinctSeqs(S) ==
    UNION {{q \in [1..n -> S] : \A i, j \in 1..n : i # j => q[i] # q[j]} :
           n \in 0..Cardinality(S)}

\* C8: from an empty free list, inserting k blocks no two of which are
\* physically adjacent gives length k; inserting two physically adjacent
\* blocks, in either order, gives length 1.
C8_Length ==
    mem[FreeList].next = FreeList =>
        /\ \A q \in DistinctSeqs(held) :
               (\A i, j \in 1..Len(q) : ~Adjacent(mem, q[i], q[j]))
               => free_list_length(InsertAll(State, q)) = Len(q)
        /\ \A a \in held, b \in held :
               Adjacent(mem, a, b)
               => /\ free_list_length(InsertAll(State, <<a, b>>)) = 1
                  /\ free_list_length(InsertAll(State, <<b, a>>)) = 1

\* three blocks no two of which are adjacent make up the free list, and no
\* merge has happened
C8_Witness ==
    /\ Counters.MERGES = 0
    /\ free_list_length(State) = 3
    /\ \A a \in FreeSet(mem), b \in FreeSet(mem) : ~Adjacent(mem, a, b)
    /\ \E a \in held, b \in FreeSet(mem) : Adjacent(mem, a, b)

Index(q, x) == CHOOSE k \in 1..Len(q) : q[k] = x

\* C9: inserting a block that is physically adjacent to two members (X ends
\* where it starts, Y starts where it ends) merges it with the one of X, Y
\* that comes first in list order and with nothing else: one merge is
\* counted, the length of the list is unchanged, and the list still holds
\* two physically adjacent blocks.
C9_SingleMerge ==
    \A b \in held, X \in FreeSet(mem), Y \in FreeSet(mem) :
        (Adjacent(mem, X, b) /\ Adjacent(mem, b, Y)) =>
            LET r  == free_list_insert(State, b)
                q  == FreeSeq(mem)
                m  == r.s.mem
                q2 == FreeSeq(m)
            IN  /\ r.s.cnt.MERGES = Counters.MERGES + 1
                /\ Len(q2) = Len(q)
                /\ \E u \in Range(q2), v \in Range(q2) : Adjacent(m, u, v)
                /\ IF Index(q, X) < Index(q, Y)
                   THEN /\ q2 = q
                        /\ b \notin DOMAIN m
                        /\ m[X].capacity = mem[X].capacity + HeaderSize + mem[b].capacity
                        /\ m[Y].capacity = mem[Y].capacity
                        /\ Adjacent(m, X, Y)
                   ELSE /\ q2 = [k \in 1..Len(q) |-> IF q[k] = Y THEN b ELSE q[k]]
                        /\ Y \notin DOMAIN m
                        /\ m[b].capacity = mem[b].capacity + HeaderSize + mem[Y].capacity
                        /\ m[X].capacity = mem[X].capacity
                        /\ Adjacent(m, X, b)

\* an insertion has merged once and left two adjacent members in the list
C9_Witness ==
    /\ Counters.MERGES > 0
    /\ \E u \in FreeSet(mem), v \in FreeSet(mem) : Adjacent(mem, u, v)
    /\ \E b \in held, X \in FreeSet(mem), Y \in FreeSet(mem) :
           Adjacent(mem, X, b) /\ Adjacent(mem, b, Y)

\* the first member in list order with room for size, NULL if there is none
FirstWithRoom(m, size) ==
    LET q   == FreeSeq(m)
        fit == {i \in 1..Len(q) : m[q[i]].capacity >= size}
    IN  IF fit = {} THEN NULL
        ELSE q[CHOOSE i \in fit : \A j \in fit : i <= j]

\* C10: first-fit search returns the first member in list order whose
\* capacity >= requestedSize and sets its size to requestedSize; it returns
\* none, changing nothing, when no member qualifies or the list is empty.
C10_FirstFit ==
    \A size \in Requests :
        LET r == free_list_search_ff(State, size)
        IN  /\ r.ret = FirstWithRoom(mem, size)
            /\ r.ret # NULL => r.s.mem = [mem EXCEPT ![r.ret].size = size]
            /\ r.ret = NULL => r.s.mem = mem
            /\ r.s.brk = brk
            /\ r.s.cnt = Counters

\* a first-fit search has hit, and for some request the first member is too
\* small while a later one has room
C10_Witness ==
    /\ FIT = 0
    /\ Counters.REUSES > 0
    /\ \E size \in Requests :
           /\ FirstWithRoom(mem, size) # NULL
           /\ FirstWithRoom(mem, size) # mem[FreeList].next
    /\ \E size \in Requests : FirstWithRoom(mem, size) = NULL

\* the positions in the list of the members with room for size
RoomAt(m, size) == {i \in 1..Len(FreeSeq(m)) : m[FreeSeq(m)[i]].capacity >= size}

\* the member with room for size that has the smallest capacity, the first
\* in list order among equals; NULL if none has room
SmallestWithRoom(m, size) ==
    LET q   == FreeSeq(m)
        fit == RoomAt(m, size)
    IN  IF fit = {} THEN NULL
        ELSE q[CHOOSE i \in fit :
                 \A j \in fit : \/ m[q[i]].capacity < m[q[j]].capacity
                                \/ (m[q[i]].capacity = m[q[j]].capacity /\ i <= j)]

\* C11: best-fit search returns the member with the smallest capacity among
\* those with capacity >= requestedSize, the first in list order among
\* several of that capacity, and none when no member qualifies.
C11_BestFit ==
    \A size \in Requests :
        free_list_search_bf(State, size).ret = SmallestWithRoom(mem, size)

\* a best-fit search has hit; two members share the smallest fitting
\* capacity, and for some request the best fit is not the first fit
C11_Witness ==
    /\ FIT = 2
    /\ Counters.REUSES > 0
    /\ \E i \in RoomAt(mem, 300), j \in RoomAt(mem, 300) :
           /\ i # j
           /\ mem[FreeSeq(mem)[i]].capacity = mem[FreeSeq(mem)[j]].capacity
           /\ SmallestWithRoom(mem, 300) \in {FreeSeq(mem)[i], FreeSeq(mem)[j]}
    /\ \E size \in Requests :
           SmallestWithRoom(mem, size) \notin {NULL, FirstWithRoom(mem, size)}

\* the member with room for size that has the largest capacity, the first
\* in list order among equals; NULL if none has room
LargestWithRoom(m, size) ==
    LET q   == FreeSeq(m)
        fit == RoomAt(m, size)
    IN  IF fit = {} THEN NULL
        ELSE q[CHOOSE i \in fit :
                 \A j \in fit : \/ m[q[i]].capacity > m[q[j]].capacity
                                \/ (m[q[i]].capacity = m[q[j]].capacity /\ i <= j)]

\* C12: worst-fit search returns the member with the largest capacity among
\* those with capacity >= requestedSize, the first in list order among
\* several of that capacity, and none when no member qualifies.
C12_WorstFit ==
    \A size \in Requests :
        free_list_search_wf(State, size).ret = LargestWithRoom(mem, size)

\* a worst-fit search has hit and has put the request's size into the
\* first of two members that share the largest capacity
C12_Witness ==
    /\ FIT = 1
    /\ Counters.REUSES > 0
    /\ \E i \in RoomAt(mem, 300), j \in RoomAt(mem, 300) :
           /\ i < j
           /\ mem[FreeSeq(mem)[i]].capacity = mem[FreeSeq(mem)[j]].capacity
           /\ LargestWithRoom(mem, 300) = FreeSeq(mem)[i]
           /\ mem[FreeSeq(mem)[i]].size = 300
           /\ mem[FreeSeq(mem)[j]].size # 300

\* the blocks block_detach may be called on: list members and detached blocks
DetachTargets == FreeSet(mem) \cup {b \in held : SelfLinked(mem, b)}

\* q without its member x
Without(q, x) == SelectSeq(q, LAMBDA y : y # x)

\* C13: block_detach(b) on a list member links b's former prev and next to
\* each other, changes no other link and leaves b self-linked; on a
\* self-linked block it changes nothing, so detaching twice leaves the state
\* of detaching once; on a null block it returns null and changes nothing.
C13_Detach ==
    /\ \A b \in DetachTargets :
        LET r == block_detach(State, b)
            m == r.s.mem
            p == mem[b].prev
            n == mem[b].next
        IN  /\ r.ret = b
            /\ SelfLinked(m, b)
            /\ b \in FreeSet(mem) =>
                /\ m[p].next = n
                /\ m[n].prev = p
                /\ p # n => m[p].prev = mem[p].prev /\ m[n].next = mem[n].next
                /\ FreeSeq(m) = Without(FreeSeq(mem), b)
            /\ \A a \in DOMAIN mem \ {b, p, n} : m[a] = mem[a]
            /\ \A a \in DOMAIN mem :
                   m[a].capacity = mem[a].capacity /\ m[a].size = mem[a].size
            /\ DOMAIN m = DOMAIN mem
            /\ r.s.brk = brk /\ r.s.cnt = Counters
            /\ SelfLinked(mem, b) => r.s = State
            /\ block_detach(r.s, b) = r
    /\ block_detach(State, NULL) = [s |-> State, ret |-> NULL]

\* the only block ever grown is at HeapBase, so the detached block a caller
\* holds elsewhere is a remainder that was taken out of the free list, which
\* still has members
C13_Witness ==
    /\ Counters.GROWS = 1
    /\ Counters.SHRINKS = 0
    /\ \E b \in held : b # HeapBase /\ SelfLinked(mem, b)
    /\ Len(FreeSeq(mem)) >= 2

\* C14: when the heap boundary primitive fails, block_allocate returns the
\* failure value and block_release returns false after that one attempt, and
\* the heap boundary, every block, the free list and every counter are as
\* before.
C14_BoundaryFailure ==
    /\ \A size \in Requests :
           block_allocate(State, size, FALSE) = [s |-> State, ret |-> NULL]
    /\ \A b \in Live(mem) :
           block_release(State, b, FALSE) = [s |-> State, ret |-> FALSE]

\* a caller holds a trailing block above the trim threshold, whose release
\* reaches the shrink call, and the free list is not empty
C14_Witness ==
    /\ \E b \in held : Trailing(State, b) /\ HeaderSize + mem[b].capacity > TRIM_THRESHOLD
    /\ FreeSeq(mem) # <<>>
    /\ Counters.SHRINKS > 0

\* C15: the sentinel keeps capacity = size = -1; no search strategy returns
\* it, although its capacity has room for every request; free_list_insert
\* never merges it (its fields stay, and a counted merge is one with a
\* member that is physically adjacent to the block) and splits nothing; and
\* it is its own prev and next exactly when the free list is empty.
C15_Sentinel ==
    /\ mem[FreeList].capacity = SIZE_MAX
    /\ mem[FreeList].size = SIZE_MAX
    /\ \A size \in Requests :
        /\ mem[FreeList].capacity >= size
        /\ free_list_search_ff(State, size).ret # FreeList
        /\ free_list_search_bf(State, size).ret # FreeList
        /\ free_list_search_wf(State, size).ret # FreeList
        /\ \A fit \in {0, 1, 2} :
               free_list_search(State, size, fit).s.mem[FreeList].size = SIZE_MAX
    /\ \A b \in held :
        LET r == free_list_insert(State, b)
        IN  /\ r.s.mem[FreeList].capacity = SIZE_MAX
            /\ r.s.mem[FreeList].size = SIZE_MAX
            /\ r.s.cnt.SPLITS = Counters.SPLITS
            /\ r.s.cnt.MERGES \in {Counters.MERGES, Counters.MERGES + 1}
            /\ r.s.cnt.MERGES # Counters.MERGES =>
                   \E c \in FreeSet(mem) : Adjacent(mem, b, c) \/ Adjacent(mem, c, b)
    /\ (mem[FreeList].prev = FreeList /\ mem[FreeList].next = FreeList)
           <=> free_list_length(State) = 0
    /\ mem[FreeList].prev = FreeList <=> mem[FreeList].next = FreeList

\* searches have hit and insertions have merged, the free list has members
\* and a caller holds a block that an insertion would merge
C15_Witness ==
    /\ Counters.REUSES > 0
    /\ Counters.MERGES > 0
    /\ FreeSeq(mem) # <<>>
    /\ \E b \in held, c \in FreeSet(mem) : Adjacent(mem, b, c)

\* the positions in the list of the members physically adjacent to b
AdjacentAt(m, b) ==
    {i \in 1..Len(FreeSeq(m)) :
        Adjacent(m, b, FreeSeq(m)[i]) \/ Adjacent(m, FreeSeq(m)[i], b)}

SameLinks(m1, m2) ==
    \A a \in DOMAIN m1 \cap DOMAIN m2 :
        m1[a].prev = m2[a].prev /\ m1[a].next = m2[a].next

\* C16: free_list_insert(block) puts block in the list position of the
\* member it absorbs, which leaves the list; changes no link when a member
\* absorbs block; and makes block the tail when no member is physically
\* adjacent.  The other members keep their relative order.
C16_Placement ==
    \A b \in held :
        LET q    == FreeSeq(mem)
            r    == free_list_insert(State, b)
            m    == r.s.mem
            q2   == FreeSeq(m)
            near == AdjacentAt(mem, b)
            curr == q[CHOOSE i \in near : \A j \in near : i <= j]
        IN  IF near = {}
            THEN /\ q2 = Append(q, b)
                 /\ m[FreeList].prev = b
                 /\ m[b].next = FreeList
                 /\ m[b].prev = mem[FreeList].prev
            ELSE IF Adjacent(mem, b, curr)
            THEN /\ q2 = [k \in 1..Len(q) |-> IF q[k] = curr THEN b ELSE q[k]]
                 /\ m[b].prev = mem[curr].prev
                 /\ m[b].next = mem[curr].next
                 /\ m[mem[curr].prev].next = b
                 /\ m[mem[curr].next].prev = b
                 /\ curr \notin Range(q2)
            ELSE /\ q2 = q
                 /\ SameLinks(m, mem)

\* a merge has happened, the list has two members, and a caller holds a
\* block that would absorb a member and a block without an adjacent member
C16_Witness ==
    /\ Counters.MERGES > 0
    /\ Len(FreeSeq(mem)) >= 2
    /\ \E b \in held : \E c \in FreeSet(mem) :
           Adjacent(mem, b, c) /\ c # mem[FreeList].prev
    /\ \E b \in held : AdjacentAt(mem, b) = {}

\* C17: every scan of the free list ends.  The loops of the three searches,
\* of free_list_insert and of free_list_length all step from the sentinel's
\* next along next links until the sentinel; in every reachable state that
\* chain is back at the sentinel after one visit to each member, so
\* free_list_length counts each member once, each search ends with a member
\* or NULL, each insertion ends, and they leave such a chain behind.
C17_ScansEnd ==
    /\ Closed(mem)
    /\ free_list_length(State) = Cardinality(FreeSet(mem))
    /\ \A size \in Requests : \A fit \in {0, 1, 2} :
           LET r == free_list_search(State, size, fit)
           IN  r.ret \in FreeSet(mem) \cup {NULL} /\ Closed(r.s.mem)
    /\ \A b \in held :
           LET r == free_list_insert(State, b)
           IN  /\ Closed(r.s.mem)
               /\ free_list_length(r.s) <= Len(FreeSeq(mem)) + 1

\* a caller detaches a block it holds whose links are not its own address
StaleDetach == \E b \in held : DetachHeld(b)

\* C17 (amended): the chain closes in the initial state; every step other
\* than the detach of a held block that is not self-linked goes from a
\* state whose chain closes to a state whose chain closes; and in every
\* state whose chain closes the scans end, as stated above.
C17_ScansEndOnMembers ==
    /\ Closed(mem)
    /\ [][(Closed(mem) /\ ~StaleDetach) => Closed(mem')]_vars
    /\ [](Closed(mem) => C17_ScansEnd)

\* the heap has been cut, trimmed and searched, the list has two members whose
\* chain closes, and a caller holds a block that is not self-linked
C17_Witness ==
    /\ Counters.SPLITS > 0
    /\ Counters.SHRINKS > 0
    /\ Counters.REUSES > 0
    /\ Closed(mem)
    /\ Len(FreeSeq(mem)) >= 2
    /\ \E b \in held : ~SelfLinked(mem, b)

Reaches(m, a, b) ==
    \E i \in 1..Len(Walk(m, a, Cardinality(DOMAIN m))) :
        m[Walk(m, a, Cardinality(DOMAIN m))[i]].next = b

\* C18: the free list is a well-formed circular doubly-linked ring: each
\* node n of it, the sentinel included, has n.next.prev = n and
\* n.prev.next = n, the sentinel is reached again from each node, and no
\* node occurs twice.
C18_Ring ==
    LET q == FreeSeq(mem)
    IN  /\ \A n \in {FreeList} \cup Range(q) :
            /\ mem[n].next \in DOMAIN mem
            /\ mem[n].prev \in DOMAIN mem
            /\ mem[mem[n].next].prev = n
            /\ mem[mem[n].prev].next = n
        /\ \A n \in Range(q) : Reaches(mem, n, FreeList)
        /\ mem[FreeList].next = FreeList \/ Reaches(mem, mem[FreeList].next, FreeList)
        /\ \A i, j \in 1..Len(q) : q[i] = q[j] => i = j
        /\ FreeList \notin Range(q)

\* a member has been split and found by a search, a split-off remainder has
\* been detached from the list, which still has two members
C18_Witness ==
    /\ Counters.SPLITS > 0
    /\ Counters.REUSES > 0
    /\ Counters.MERGES = 0
    /\ Len(FreeSeq(mem)) >= 2
    /\ \E b \in held : \A size \in Sizes : mem[b].capacity # ALIGN(size)

RECURSIVE Extent(_, _)
Extent(m, S) ==
    IF S = {} THEN 0
    ELSE LET b == CHOOSE x \in S : TRUE
         IN  HeaderSize + m[b].capacity + Extent(m, S \ {b})

\* C19: the blocks held by callers and the members of the free list tile
\* the heap: their regions [b, b + header size + capacity) are pairwise
\* disjoint, lie between the heap base and the boundary, fill that range,
\* and HEAP_SIZE is its length; no block is both held and free.
C19_Tiling ==
    LET live == held \cup FreeSet(mem)
    IN  /\ held \cap FreeSet(mem) = {}
        /\ live = Live(mem)
        /\ \A a, b \in live :
               a # b => \/ a + HeaderSize + mem[a].capacity <= b
                        \/ b + HeaderSize + mem[b].capacity <= a
        /\ \A b \in live : HeapBase <= b /\ b + HeaderSize + mem[b].capacity <= brk
        /\ Extent(mem, live) = brk - HeapBase
        /\ Counters.HEAP_SIZE = brk - HeapBase

\* the heap has grown, shrunk, been split and merged, and holds both blocks
\* in use and free blocks
C19_Witness ==
    /\ Counters.GROWS > 1
    /\ Counters.SHRINKS > 0
    /\ Counters.SPLITS > 0
    /\ Counters.MERGES > 0
    /\ held # {}
    /\ FreeSeq(mem) # <<>>

\* C20: BLOCKS is the number of live blocks; a successful block_allocate
\* and a performed split add one, a successful merge and a successful
\* release take one, and a failed or no-op call leaves it.
C20_Blocks ==
    LET live == held \cup FreeSet(mem)
        B(r) == r.s.cnt.BLOCKS
    IN  /\ Counters.BLOCKS = Cardinality(live)
        /\ \A size \in Requests :
            /\ B(block_allocate(State, size, TRUE)) = Counters.BLOCKS + 1
            /\ B(block_allocate(State, size, FALSE)) = Counters.BLOCKS
            /\ \A fit \in {0, 1, 2, 3} :
                   B(free_list_search(State, size, fit)) = Counters.BLOCKS
            /\ \A b \in live :
                   B(block_split(State, b, size)) =
                       IF ALIGN(size) + HeaderSize < mem[b].capacity
                       THEN Counters.BLOCKS + 1 ELSE Counters.BLOCKS
        /\ \A a, b \in live :
               LET r == block_merge(State, a, b)
               IN  B(r) = IF r.ret THEN Counters.BLOCKS - 1 ELSE Counters.BLOCKS
        /\ \A b \in live : \A ok \in BOOLEAN :
               LET r == block_release(State, b, ok)
               IN  B(r) = IF r.ret THEN Counters.BLOCKS - 1 ELSE Counters.BLOCKS
        /\ \A b \in live : B(block_detach(State, b)) = Counters.BLOCKS
        /\ B(block_detach(State, NULL)) = Counters.BLOCKS

\* blocks have been made by growth and by a split and unmade by a merge and
\* by a release, and some are left
C20_Witness ==
    /\ Counters.GROWS > 0
    /\ Counters.SPLITS > 0
    /\ Counters.MERGES > 0
    /\ Counters.SHRINKS > 0
    /\ Counters.BLOCKS >= 2

====
